---------------------------- MODULE Spec2Model ----------------------------
(***************************************************************************)
(* A model of secure-storage: the encrypted artifact store                 *)
(* (internal/storage/storage.go), the per-client rate limiter and the      *)
(* server start-up (cmd/server/main.go).                                   *)
(*                                                                         *)
(* Strings are sequences of one-character strings, byte slices are         *)
(* sequences of integers in 0..255.  The disk is a function from the paths *)
(* that exist in the data directory to their bytes and permission bits.    *)
(***************************************************************************)
EXTENDS Integers, Sequences, FiniteSets, Bags, TLC

VARIABLES
    svc,        \* the storage.Service of the process: [ok, key]
    disk,       \* data directory: path -> [bytes, perm]
    last,       \* the most recent call and what it returned
    saved,      \* history: filename -> [content: what its last successful
                \* SaveFile stored (NoData: none, or a failed SaveFile wrote
                \* since), tamper: what was done to its files since]
    mainPc,     \* where main() is
    envKey,     \* the STORAGE_KEY environment variable
    visitors,   \* RateLimiter.visitors: client address -> limiter
    limiters,   \* the rate.Limiter objects: id -> [tokens, elapsed, calls, era]
    mu,         \* RateLimiter.mu is held
    reqs,       \* the requests in flight: a bag of [pc, ip, lim]
    sweeper,    \* the clean-up goroutine: [pc, left]
    allowed,    \* what the step just taken returned, when it was an Allow
    rand,       \* rand.Reader where its values are taken as a stream: [next:
                \* the place in the stream, used: the nonces of the artifacts
                \* written so far]
    running,    \* the SaveFile and LoadFile calls that run concurrently:
                \* [inflight: a bag of [op, pc, name, enc, sum, data, quiet],
                \* begun: filename -> the contents SaveFile was called with]
    window      \* history: a stretch of time without a sweep that is being
                \* watched: [open, t: its seconds so far, admitted: the Allow
                \* calls admitted in it]

conVars == <<rand, running>>
storeVars == <<svc, disk, last, saved, mainPc, envKey, conVars>>
limVars == <<visitors, limiters, mu, reqs, sweeper, allowed, window>>
vars == <<svc, disk, last, saved, mainPc, envKey,
          visitors, limiters, mu, reqs, sweeper, allowed, rand, running, window>>

(***************************************************************************)
(* Bounds of the model.                                                    *)
(***************************************************************************)
MaxLen == 1          \* longest plaintext, in bytes
NumNonces == 2       \* how many different values the random source yields
MaxNameLen == 3      \* longest filename handed to validateFilename alone
MaxKeyLen == 33      \* longest STORAGE_KEY tried at start-up
NumReqs == 2         \* requests that can be in flight at once
MaxCalls == 2        \* SaveFile and LoadFile calls that can run at once
MaxWindow == 1       \* seconds a watched stretch of time can last

(***************************************************************************)
(* Constants of the program and of the libraries it calls.                 *)
(***************************************************************************)
NonceSize == 12      \* gcm.NonceSize()
TagSize == 16        \* gcm.Overhead()
DigestSize == 32     \* sha256.Size
PermEnc == 384       \* 0600
PermSum == 420       \* 0644
MainKeyLen == 32     \* the length main() insists on
Burst == 3           \* rate.NewLimiter(1, 3): the bucket size
Rate == 1            \* rate.NewLimiter(1, 3): tokens per second
SweepPeriod == 60    \* time.Minute, in seconds

Nil == "nil"
NoData == <<-1>>     \* a nil []byte result (no byte sequence holds -1)

(***************************************************************************)
(* Helpers on sequences.                                                   *)
(***************************************************************************)
SeqsUpTo(S, n) == UNION {[1..k -> S] : k \in 0..n}

Take(s, k) == SubSeq(s, 1, k)

\* strings.Contains
Contains(s, sub) ==
    \E i \in 1..(Len(s) - Len(sub) + 1) : SubSeq(s, i, i + Len(sub) - 1) = sub

\* strings.ContainsAny
ContainsAny(s, chars) == \E i \in DOMAIN s : s[i] \in chars

(***************************************************************************)
(* validateFilename.                                                       *)
(***************************************************************************)
Lower == {"a","b","c","d","e","f","g","h","i","j","k","l","m",
          "n","o","p","q","r","s","t","u","v","w","x","y","z"}
Upper == {"A","B","C","D","E","F","G","H","I","J","K","L","M",
          "N","O","P","Q","R","S","T","U","V","W","X","Y","Z"}
Digit == {"0","1","2","3","4","5","6","7","8","9"}

\* the character class of validPattern, [a-zA-Z0-9_\-\.]
PatternClass == Lower \cup Upper \cup Digit \cup {"_", "-", "."}

\* validPattern.MatchString: ^[class]+$ ; in Go's regexp $ is the end of the
\* text, so the whole string, which may not be empty, is in the class
MatchValidPattern(s) == Len(s) >= 1 /\ \A i \in DOMAIN s : s[i] \in PatternClass

validateFilename_NoTraversalCheck(filename) ==
    IF filename = <<>> THEN "filename cannot be empty"
    ELSE IF ContainsAny(filename, {"/", "\\"})
         THEN "filename cannot contain path separators"
    ELSE IF ~MatchValidPattern(filename) THEN "filename contains invalid characters"
    ELSE IF filename = <<".">> \/ filename = <<".", ".">> THEN "invalid filename"
    ELSE Nil

validateFilename(filename) ==
    IF filename = <<>> THEN "filename cannot be empty"
    ELSE IF Contains(filename, <<".", ".">>)
         THEN "filename contains path traversal attempt"
    ELSE IF ContainsAny(filename, {"/", "\\"})
         THEN "filename cannot contain path separators"
    ELSE IF ~MatchValidPattern(filename) THEN "filename contains invalid characters"
    ELSE IF filename = <<".">> \/ filename = <<".", ".">> THEN "invalid filename"
    ELSE Nil

(***************************************************************************)
(* The cipher.  AES-GCM is a counter-mode stream cipher with a polynomial  *)
(* authenticator: the ciphertext is the plaintext combined bytewise with a *)
(* keystream derived from key and nonce, and the 16-byte tag combines the  *)
(* encrypted counter block of the nonce with a hash of the ciphertext and  *)
(* its length.  The model keeps that structure on 8-bit bytes and replaces *)
(* the field arithmetic by addition modulo 256: every byte of nonce,       *)
(* ciphertext and tag enters the verification, and changing one of them    *)
(* alone always changes the outcome, as it does for GCM.                   *)
(***************************************************************************)
\* aes.NewCipher: the key sizes of AES-128, AES-192 and AES-256
AesKeySizes == {16, 24, 32}

KeyByte(key, i) == key[((i - 1) % Len(key)) + 1]

\* byte i of the keystream of (key, nonce)
KeyStream(key, nonce, i) ==
    (KeyByte(key, i) + nonce[((i - 1) % NonceSize) + 1] + 7 * i) % 256

Encipher(key, nonce, data) ==
    [i \in 1..Len(data) |-> (data[i] + KeyStream(key, nonce, i)) % 256]

Decipher(key, nonce, ct) ==
    [i \in 1..Len(ct) |-> (ct[i] + 256 - KeyStream(key, nonce, i)) % 256]

\* byte j of the encrypted counter block of the nonce: injective in the nonce
CounterBlock(key, nonce, j) ==
    (3 * KeyByte(key, j) + (IF j <= NonceSize THEN nonce[j] ELSE j)) % 256

RECURSIVE HashLane(_, _, _)
\* the sum of the ciphertext bytes at the positions i, i+16, i+32, ...
HashLane(ct, i, acc) ==
    IF i > Len(ct) THEN acc ELSE HashLane(ct, i + TagSize, (acc + ct[i]) % 256)

\* byte j of the hash of the ciphertext and its length
GHash(ct, j) == (HashLane(ct, j, 0) + (IF j = TagSize THEN Len(ct) ELSE 0)) % 256

GcmTag(key, nonce, ct) ==
    [j \in 1..TagSize |-> (CounterBlock(key, nonce, j) + GHash(ct, j)) % 256]

\* gcm.Seal(dst, nonce, plaintext, nil): dst followed by ciphertext and tag
gcmSeal(key, dst, nonce, plaintext) ==
    LET ct == Encipher(key, nonce, plaintext)
    IN  dst \o ct \o GcmTag(key, nonce, ct)

\* gcm.Open(nil, nonce, ciphertext, nil) with the authentication left out
gcmOpen_NoAuth(key, nonce, ciphertext) ==
    IF Len(ciphertext) < TagSize THEN [ok |-> FALSE, plaintext |-> NoData]
    ELSE [ok |-> TRUE,
          plaintext |-> Decipher(key, nonce, Take(ciphertext, Len(ciphertext) - TagSize))]

\* gcm.Open(nil, nonce, ciphertext, nil): the plaintext, or an error when the
\* input is shorter than a tag or the tag does not verify
gcmOpen(key, nonce, ciphertext) ==
    IF Len(ciphertext) < TagSize THEN [ok |-> FALSE, plaintext |-> NoData]
    ELSE LET n == Len(ciphertext) - TagSize
             ct == Take(ciphertext, n)
             tag == SubSeq(ciphertext, n + 1, Len(ciphertext))
         IN  IF tag = GcmTag(key, nonce, ct)
             THEN [ok |-> TRUE, plaintext |-> Decipher(key, nonce, ct)]
             ELSE [ok |-> FALSE, plaintext |-> NoData]

(***************************************************************************)
(* The digest.  SHA-256 is modelled as a 32-byte digest that is free of    *)
(* collisions on inputs of up to 31 bytes: the first byte carries the      *)
(* length, the others the input bytes, each mixed with its position.       *)
(***************************************************************************)
Sha256(data) ==
    [j \in 1..DigestSize |->
        IF j = 1 THEN (106 + 9 * Len(data)) % 256
        ELSE IF j - 1 <= Len(data) THEN (data[j - 1] + 31 * j) % 256
        ELSE (187 + 13 * j) % 256]

\* the digits of hex.EncodeToString in upper case
HexDigit_Upper(n) == IF n < 10 THEN 48 + n ELSE 55 + n

\* the ASCII code of a lowercase hexadecimal digit
HexDigit(n) == IF n < 10 THEN 48 + n ELSE 87 + n

\* hex.EncodeToString, as the bytes of the string
HexEncode(bytes) ==
    [k \in 1..(2 * Len(bytes)) |->
        LET b == bytes[(k + 1) \div 2]
        IN  IF k % 2 = 1 THEN HexDigit(b \div 16) ELSE HexDigit(b % 16)]

(***************************************************************************)
(* The file system calls.                                                  *)
(***************************************************************************)
EncExt == <<".", "e", "n", "c">>
SumExt == <<".", "s", "h", "a", "2", "5", "6">>

\* filepath.Join(s.dataDir, filename + ext): the path inside the data
\* directory; a validated filename holds no separator and is no dot element
\* the artifact stored under the filename itself
EncPath_NoExt(filename) == filename

EncPath(filename) == filename \o EncExt
SumPath(filename) == filename \o SumExt

EmptyDisk == [p \in {} |-> [bytes |-> <<>>, perm |-> 0]]

Put(d, path, bytes, perm) ==
    [q \in DOMAIN d \cup {path} |->
        IF q = path
        THEN [bytes |-> bytes, perm |-> IF path \in DOMAIN d THEN d[path].perm ELSE perm]
        ELSE d[q]]

\* How a write can end: "ok"; "open" (OpenFile fails, nothing changes);
\* "trunc" (the file is created or truncated and no byte is written);
\* "short" (the write stops one byte before the end).
WriteFaults == {"ok", "open", "trunc", "short"}

\* what is left of a file beyond the first n bytes
BytesBeyond(d, path, n) ==
    IF path \in DOMAIN d /\ Len(d[path].bytes) > n
    THEN SubSeq(d[path].bytes, n + 1, Len(d[path].bytes))
    ELSE <<>>

\* os.WriteFile without O_TRUNC: the old bytes beyond the new ones stay
WriteFile_NoTrunc(d, path, data, perm, fault) ==
    IF fault = "ok"
    THEN [disk |-> Put(d, path, data \o BytesBeyond(d, path, Len(data)), perm), ok |-> TRUE]
    ELSE [disk |-> d, ok |-> FALSE]

\* os.WriteFile(path, data, perm): O_WRONLY|O_CREATE|O_TRUNC, then Write
WriteFile(d, path, data, perm, fault) ==
    CASE fault = "ok"    -> [disk |-> Put(d, path, data, perm), ok |-> TRUE]
      [] fault = "open"  -> [disk |-> d, ok |-> FALSE]
      [] fault = "trunc" -> [disk |-> Put(d, path, <<>>, perm), ok |-> FALSE]
      [] fault = "short" ->
            [disk |-> Put(d, path, Take(data, IF Len(data) = 0 THEN 0 ELSE Len(data) - 1), perm),
             ok |-> FALSE]

\* os.WriteFile, first part: OpenFile with O_WRONLY|O_CREATE|O_TRUNC
OpenTrunc(d, path, perm) == Put(d, path, <<>>, perm)

\* os.WriteFile, second part: Write from the start of the open file; what
\* another writer has put beyond these bytes in the meantime stays
WriteAtStart(d, path, data) ==
    Put(d, path, data \o BytesBeyond(d, path, Len(data)), 0)

\* os.ReadFile with the absence of the file reported like any other error
ReadFile_AbsenceAsError(d, path, fault) ==
    IF path \notin DOMAIN d \/ fault = "io" THEN [err |-> "io", bytes |-> NoData]
    ELSE [err |-> Nil, bytes |-> d[path].bytes]

\* os.ReadFile(path); fault is "ok", or "io" for an error other than absence
ReadFile(d, path, fault) ==
    IF path \notin DOMAIN d THEN [err |-> "notexist", bytes |-> NoData]
    ELSE IF fault = "io" THEN [err |-> "io", bytes |-> NoData]
    ELSE [err |-> Nil, bytes |-> d[path].bytes]

(***************************************************************************)
(* storage.Service.                                                        *)
(***************************************************************************)
ErrInvalid == "invalid filename"
ErrReadContent == "failed to read file content"
ErrNonce == "failed to generate nonce"
ErrWriteEnc == "failed to write encrypted file"
ErrWriteSum == "failed to write checksum file"
ErrNotFound == "file not found"
ErrReadEnc == "failed to read file"
ErrTooSmall == "encrypted file is too small"
ErrDecrypt == "failed to decrypt file"
ErrSumMissing == "integrity check failed: checksum file missing"
ErrReadSum == "failed to read checksum"
ErrMismatch == "integrity check failed: hash mismatch"
ErrCipher == "failed to create cipher"

\* NewService(key, dataDir): aes.NewCipher rejects every key that is not 16,
\* 24 or 32 bytes long; cipher.NewGCM accepts every AES block cipher
NewService(key) ==
    IF Len(key) \notin AesKeySizes
    THEN [ok |-> FALSE, err |-> ErrCipher, key |-> <<>>]
    ELSE [ok |-> TRUE, err |-> Nil, key |-> key]

\* What can go wrong in one SaveFile: nothing, the content reader, the
\* random source, or one of the two writes.
SaveFaults ==
    {[at |-> "none", how |-> "ok"], [at |-> "read", how |-> "io"],
     [at |-> "rand", how |-> "io"]}
    \cup {[at |-> a, how |-> h] : a \in {"enc", "sum"}, h \in WriteFaults \ {"ok"}}

NoFault == [at |-> "none", how |-> "ok"]

How(fault, at) == IF fault.at = at THEN fault.how ELSE "ok"

\* SaveFile with the filename validated only after the artifact is written
SaveFile_ValidateLate(s, d, filename, content, nonce, fault) ==
    LET encrypted == gcmSeal(s.key, nonce, nonce, content)
        w1 == WriteFile(d, EncPath(filename), encrypted, PermEnc, "ok")
    IN  IF validateFilename(filename) # Nil
        THEN [err |-> ErrInvalid, disk |-> w1.disk, read |-> Len(content),
              fs |-> <<"WriteFile enc">>]
        ELSE LET w2 == WriteFile(w1.disk, SumPath(filename),
                                 HexEncode(Sha256(content)), PermSum, "ok")
             IN  [err |-> Nil, disk |-> w2.disk, read |-> Len(content),
                  fs |-> <<"WriteFile enc", "WriteFile sum">>]

\* SaveFile with the nonce buffer never filled from rand.Reader
SaveFile_FixedNonce(s, d, filename, content, nonce, fault) ==
    IF validateFilename(filename) # Nil
    THEN [err |-> ErrInvalid, disk |-> d, read |-> 0, fs |-> <<>>]
    ELSE LET zero == [j \in 1..NonceSize |-> 0]
             w1 == WriteFile(d, EncPath(filename), gcmSeal(s.key, zero, zero, content),
                             PermEnc, "ok")
             w2 == WriteFile(w1.disk, SumPath(filename), HexEncode(Sha256(content)),
                             PermSum, "ok")
         IN  [err |-> Nil, disk |-> w2.disk, read |-> Len(content),
              fs |-> <<"WriteFile enc", "WriteFile sum">>]

\* SaveFile putting the files back as they were when the checksum write fails
SaveFile_CleansUp(s, d, filename, content, nonce, fault) ==
    IF validateFilename(filename) # Nil
    THEN [err |-> ErrInvalid, disk |-> d, read |-> 0, fs |-> <<>>]
    ELSE IF fault.at = "read"
    THEN [err |-> ErrReadContent, disk |-> d, read |-> Len(content), fs |-> <<>>]
    ELSE IF fault.at = "rand"
    THEN [err |-> ErrNonce, disk |-> d, read |-> Len(content), fs |-> <<>>]
    ELSE
    LET w1 == WriteFile(d, EncPath(filename), gcmSeal(s.key, nonce, nonce, content),
                        PermEnc, How(fault, "enc"))
    IN  IF ~w1.ok
        THEN [err |-> ErrWriteEnc, disk |-> w1.disk, read |-> Len(content),
              fs |-> <<"WriteFile enc">>]
        ELSE
        LET w2 == WriteFile(w1.disk, SumPath(filename), HexEncode(Sha256(content)),
                            PermSum, How(fault, "sum"))
        IN  [err |-> IF w2.ok THEN Nil ELSE ErrWriteSum,
             disk |-> IF w2.ok THEN w2.disk ELSE d,
             read |-> Len(content), fs |-> <<"WriteFile enc", "WriteFile sum">>]

\* SaveFile(filename, content): the error, the disk afterwards, the number of
\* bytes taken from content and the file system calls made.  nonce is what
\* rand.Reader yields.
SaveFile(s, d, filename, content, nonce, fault) ==
    IF validateFilename(filename) # Nil
    THEN [err |-> ErrInvalid, disk |-> d, read |-> 0, fs |-> <<>>]
    ELSE IF fault.at = "read"
    THEN [err |-> ErrReadContent, disk |-> d, read |-> Len(content), fs |-> <<>>]
    ELSE IF fault.at = "rand"
    THEN [err |-> ErrNonce, disk |-> d, read |-> Len(content), fs |-> <<>>]
    ELSE
    LET data == content
        checksum == HexEncode(Sha256(content))   \* the hasher saw what ReadAll read
        encrypted == gcmSeal(s.key, nonce, nonce, data)
        w1 == WriteFile(d, EncPath(filename), encrypted, PermEnc, How(fault, "enc"))
    IN  IF ~w1.ok
        THEN [err |-> ErrWriteEnc, disk |-> w1.disk, read |-> Len(content),
              fs |-> <<"WriteFile enc">>]
        ELSE
        LET w2 == WriteFile(w1.disk, SumPath(filename), checksum, PermSum,
                            How(fault, "sum"))
        IN  [err |-> IF w2.ok THEN Nil ELSE ErrWriteSum, disk |-> w2.disk,
             read |-> Len(content), fs |-> <<"WriteFile enc", "WriteFile sum">>]

\* SaveFile with one Read of the content in place of io.ReadAll: the last
\* byte is not read
Prepare_OneRead(s, content, nonce) ==
    LET data == Take(content, IF Len(content) = 0 THEN 0 ELSE Len(content) - 1)
    IN  [enc |-> gcmSeal(s.key, nonce, nonce, data), sum |-> HexEncode(Sha256(data))]

\* SaveFile, from the hasher to the checksum: what the call is going to
\* write into F.enc and into F.sha256
Prepare(s, content, nonce) ==
    [enc |-> gcmSeal(s.key, nonce, nonce, content),
     sum |-> HexEncode(Sha256(content))]

\* What can go wrong in one LoadFile: nothing, or one of the two reads fails
\* with an error other than absence.
LoadFaults == {NoFault, [at |-> "enc", how |-> "io"], [at |-> "sum", how |-> "io"]}

\* LoadFile, from the nonce check to gcm.Open, with the result of Open not
\* looked at
OpenArtifact_NoAuth(s, encrypted) ==
    IF Len(encrypted) < NonceSize THEN [err |-> ErrTooSmall, plaintext |-> NoData]
    ELSE LET opened == gcmOpen_NoAuth(s.key, Take(encrypted, NonceSize),
                                      SubSeq(encrypted, NonceSize + 1, Len(encrypted)))
         IN  [err |-> IF opened.ok THEN Nil ELSE ErrDecrypt, plaintext |-> opened.plaintext]

\* LoadFile, from the nonce check to gcm.Open, with the nonce check left
\* out: gcm.Open refuses what is too short
OpenArtifact_NoSizeCheck(s, encrypted) ==
    IF Len(encrypted) < NonceSize THEN [err |-> ErrDecrypt, plaintext |-> NoData]
    ELSE LET opened == gcmOpen(s.key, Take(encrypted, NonceSize),
                               SubSeq(encrypted, NonceSize + 1, Len(encrypted)))
         IN  IF ~opened.ok THEN [err |-> ErrDecrypt, plaintext |-> NoData]
             ELSE [err |-> Nil, plaintext |-> opened.plaintext]

\* LoadFile, from the nonce check to gcm.Open: the artifact is split into
\* nonce and ciphertext and opened
OpenArtifact(s, encrypted) ==
    IF Len(encrypted) < NonceSize THEN [err |-> ErrTooSmall, plaintext |-> NoData]
    ELSE LET nonce == Take(encrypted, NonceSize)
             ciphertext == SubSeq(encrypted, NonceSize + 1, Len(encrypted))
             opened == gcmOpen(s.key, nonce, ciphertext)
         IN  IF ~opened.ok THEN [err |-> ErrDecrypt, plaintext |-> NoData]
             ELSE [err |-> Nil, plaintext |-> opened.plaintext]

\* the checksum verification with a missing checksum file let through
VerifyChecksum_MissingOk(plaintext, r2) ==
    IF r2.err = "notexist" THEN [err |-> Nil, data |-> plaintext]
    ELSE IF r2.err # Nil THEN [err |-> ErrReadSum, data |-> NoData]
    ELSE IF HexEncode(Sha256(plaintext)) # r2.bytes
    THEN [err |-> ErrMismatch, data |-> NoData]
    ELSE [err |-> Nil, data |-> plaintext]

\* the checksum verification comparing only the first 8 characters
VerifyChecksum_Prefix(plaintext, r2) ==
    IF r2.err = "notexist" THEN [err |-> ErrSumMissing, data |-> NoData]
    ELSE IF r2.err # Nil THEN [err |-> ErrReadSum, data |-> NoData]
    ELSE IF Take(HexEncode(Sha256(plaintext)), 8) # Take(r2.bytes, 8)
    THEN [err |-> ErrMismatch, data |-> NoData]
    ELSE [err |-> Nil, data |-> plaintext]

\* the checksum verification without the comparison
VerifyChecksum_NoCompare(plaintext, r2) ==
    IF r2.err = "notexist" THEN [err |-> ErrSumMissing, data |-> NoData]
    ELSE IF r2.err # Nil THEN [err |-> ErrReadSum, data |-> NoData]
    ELSE [err |-> Nil, data |-> plaintext]

\* LoadFile, after the checksum file was read (r2): the stored checksum must
\* be there and equal the hex digest of the decrypted bytes
VerifyChecksum(plaintext, r2) ==
    IF r2.err = "notexist" THEN [err |-> ErrSumMissing, data |-> NoData]
    ELSE IF r2.err # Nil THEN [err |-> ErrReadSum, data |-> NoData]
    ELSE IF HexEncode(Sha256(plaintext)) # r2.bytes
    THEN [err |-> ErrMismatch, data |-> NoData]
    ELSE [err |-> Nil, data |-> plaintext]

LoadResult(data, err, fs) == [data |-> data, err |-> err, fs |-> fs]

\* LoadFile(filename): the bytes, the error and the file system calls made
LoadFile(s, d, filename, fault) ==
    IF validateFilename(filename) # Nil THEN LoadResult(NoData, ErrInvalid, <<>>)
    ELSE
    LET r1 == ReadFile(d, EncPath(filename), How(fault, "enc"))
    IN  IF r1.err = "notexist" THEN LoadResult(NoData, ErrNotFound, <<"ReadFile enc">>)
        ELSE IF r1.err # Nil THEN LoadResult(NoData, ErrReadEnc, <<"ReadFile enc">>)
        ELSE
        LET opened == OpenArtifact(s, r1.bytes)
        IN  IF opened.err # Nil THEN LoadResult(NoData, opened.err, <<"ReadFile enc">>)
            ELSE
            LET r2 == ReadFile(d, SumPath(filename), How(fault, "sum"))
                v == VerifyChecksum(opened.plaintext, r2)
            IN  LoadResult(v.data, v.err, <<"ReadFile enc", "ReadFile sum">>)

\* What can go wrong in one FileExists: nothing, or os.Stat fails.
StatFaults == {NoFault, [at |-> "stat", how |-> "io"]}

\* FileExists with the checksum file required as well
FileExists_NeedsChecksum(s, d, filename, fault) ==
    IF validateFilename(filename) # Nil THEN [found |-> FALSE, fs |-> <<>>, stat |-> Nil]
    ELSE [found |-> EncPath(filename) \in DOMAIN d /\ SumPath(filename) \in DOMAIN d,
          fs |-> <<"Stat enc">>, stat |-> Nil]

\* FileExists(filename): os.Stat returned no error; stat is the error of
\* os.Stat, which FileExists does not pass on
FileExists(s, d, filename, fault) ==
    IF validateFilename(filename) # Nil THEN [found |-> FALSE, fs |-> <<>>, stat |-> Nil]
    ELSE LET stat == IF EncPath(filename) \notin DOMAIN d THEN "notexist"
                     ELSE IF How(fault, "stat") # "ok" THEN "io"
                     ELSE Nil
         IN  [found |-> stat = Nil, fs |-> <<"Stat enc">>, stat |-> stat]

(***************************************************************************)
(* api.Handler: the download request, for a GET of a path under /download/ *)
(***************************************************************************)
\* strings.Contains(err.Error(), "not found"): of the messages of LoadFile
\* only "file not found" holds these words (the others are fixed texts, or
\* wrap an error of the operating system for a path made of a validated
\* filename)
MentionsNotFound(err) == err = ErrNotFound

\* DownloadHandler, from the filename on: the response sent (status, the
\* error text of the JSON body, the bytes of a file body), with the error of
\* LoadFile
DownloadHandler(s, d, filename, fault) ==
    IF filename = <<>>
    THEN [err |-> "filename is required",
          resp |-> [status |-> 400, error |-> "filename is required", data |-> NoData]]
    ELSE
    LET r == LoadFile(s, d, filename, fault)
    IN  IF r.err # Nil
        THEN IF MentionsNotFound(r.err)
             THEN [err |-> r.err,
                   resp |-> [status |-> 404, error |-> "file not found", data |-> NoData]]
             ELSE [err |-> r.err,
                   resp |-> [status |-> 400, error |-> r.err, data |-> NoData]]
        ELSE [err |-> Nil, resp |-> [status |-> 200, error |-> "", data |-> r.data]]

(***************************************************************************)
(* The rate limiter of cmd/server/main.go.  Time advances in seconds.  A   *)
(* rate.Limiter keeps its token count and the time of its last update; the *)
(* model keeps the seconds elapsed since that update, which is all that    *)
(* Allow reads, and stops counting once the bucket would be full.  calls   *)
(* and era are history: era is "now" as long as no time has passed since   *)
(* the limiter was made, and calls then counts its Allow calls (up to 4);  *)
(* era is "waited" once time has passed right after a fourth such call and *)
(* no call was made since, and "later" otherwise (calls is then 0).        *)
(***************************************************************************)
Ips == {"ip1"}
LimiterIds == 1..(Cardinality(Ips) + NumReqs)

\* the seconds after which a bucket is full whatever it held
FullAfter == (Burst + Rate - 1) \div Rate

\* rate.NewLimiter(1, 3): the first Allow finds a full bucket
NewLimiter == [tokens |-> Burst, elapsed |-> 0, calls |-> 0, era |-> "now"]

\* Limiter.advance that forgets the refill
advance_NoRefill(lim) == lim.tokens

\* the refill of Limiter.advance without the cap at the bucket size
advance_NoCap(lim) == lim.tokens + lim.elapsed * Rate

\* Limiter.advance: the tokens at this moment, at most the bucket size
advance(lim) ==
    IF lim.tokens + lim.elapsed * Rate > Burst THEN Burst
    ELSE lim.tokens + lim.elapsed * Rate

\* Limiter.Allow that takes its token also when there is none
Allow_DenialConsumes(lim) ==
    [ok |-> advance(lim) - 1 >= 0,
     lim |-> [tokens |-> advance(lim) - 1, elapsed |-> 0,
              calls |-> IF lim.era # "now" THEN 0
                        ELSE IF lim.calls < 4 THEN lim.calls + 1 ELSE lim.calls,
              era |-> IF lim.era = "now" THEN "now" ELSE "later"]]

\* Limiter.Allow: one token is taken if there is one; a refused call leaves
\* the limiter as it was
Allow(lim) ==
    LET tokens == advance(lim) - 1
        ok == tokens >= 0
        era == IF lim.era = "now" THEN "now" ELSE "later"
        calls == IF era # "now" THEN 0
                 ELSE IF lim.calls < 4 THEN lim.calls + 1 ELSE lim.calls
    IN  [ok |-> ok,
         lim |-> IF ok
                 THEN [tokens |-> tokens, elapsed |-> 0, calls |-> calls, era |-> era]
                 ELSE [lim EXCEPT !.calls = calls, !.era = era]]

NoVisitors == [i \in {} |-> 0]

\* the request goroutine that waits in getLimiter for the lock of client ip
Locked(ip) == [pc |-> "locked", ip |-> ip, lim |-> 0]

\* the request goroutine that holds limiter id and is about to call Allow
Allowing(ip, id) == [pc |-> "allow", ip |-> ip, lim |-> id]

\* the requests in flight without rec, and with rec
Without(rq, rec) == rq (-) SetToBag({rec})
With(rq, rec) == rq (+) SetToBag({rec})

NoAllow ==
    [op |-> "none", ok |-> FALSE, nth |-> 0, waited |-> FALSE, inTable |-> FALSE]

\* no stretch of time is watched; admissions are counted up to MaxAdmitted
NoWindow == [open |-> FALSE, t |-> 0, admitted |-> 0]
MaxAdmitted == Burst + Rate * MaxWindow + 1

\* main: NewRateLimiter(), and the clean-up goroutine entering its first Sleep
InitLimiter ==
    /\ visitors = NoVisitors
    /\ limiters = [i \in {} |-> NewLimiter]
    /\ mu = FALSE
    /\ reqs = EmptyBag
    /\ sweeper = [pc |-> "sleep", left |-> SweepPeriod]
    /\ allowed = NoAllow
    /\ window = NoWindow

\* the limiters something still points to; the others are garbage
Live(vis, rq) ==
    {vis[i] : i \in DOMAIN vis} \cup {rec.lim : rec \in {x \in BagToSet(rq) : x.pc = "allow"}}

Collect(lims, vis, rq) == [i \in DOMAIN lims \cap Live(vis, rq) |-> lims[i]]

\* sync.Mutex.Lock without waiting for the holder
Lock_NoWait == mu' = TRUE

\* rl.mu.Lock(): the caller goes on once nobody holds the lock
Lock == ~mu /\ mu' = TRUE

\* rl.mu.Unlock()
Unlock == mu' = FALSE

\* Limit: a request of client ip arrives and getLimiter takes the lock
GetLimiterLock(ip) ==
    /\ BagCardinality(reqs) < NumReqs
    /\ reqs' = With(reqs, Locked(ip))
    /\ Lock
    /\ allowed' = NoAllow
    /\ UNCHANGED <<visitors, limiters, sweeper, window, storeVars>>

\* getLimiter without the look-up: every request gets a limiter of its own,
\* which takes the place of the one in the table
GetLimiterBody_AlwaysNew(ip) ==
    /\ BagIn(Locked(ip), reqs)
    /\ LET rq == With(Without(reqs, Locked(ip)), Allowing(ip, 0))
           kept == Collect(limiters, [i \in DOMAIN visitors \ {ip} |-> visitors[i]], rq)
           id == CHOOSE i \in LimiterIds \ DOMAIN kept :
                    \A j \in LimiterIds \ DOMAIN kept : i <= j
       IN  /\ visitors' = [i \in DOMAIN visitors \cup {ip} |->
                              IF i = ip THEN id ELSE visitors[i]]
           /\ limiters' = [i \in DOMAIN kept \cup {id} |->
                              IF i = id THEN NewLimiter ELSE kept[i]]
           /\ reqs' = With(Without(reqs, Locked(ip)), Allowing(ip, id))
    /\ Unlock
    /\ allowed' = NoAllow
    /\ UNCHANGED <<sweeper, window, storeVars>>

\* getLimiter under the lock: the limiter of ip is looked up, made and put
\* into the table when there is none, and returned; the lock is released
GetLimiterBody(ip) ==
    /\ BagIn(Locked(ip), reqs)
    /\ LET exists == ip \in DOMAIN visitors
           id == IF exists THEN visitors[ip]
                 ELSE CHOOSE i \in LimiterIds \ DOMAIN limiters :
                         \A j \in LimiterIds \ DOMAIN limiters : i <= j
       IN  /\ visitors' = IF exists THEN visitors
                          ELSE [i \in DOMAIN visitors \cup {ip} |->
                                   IF i = ip THEN id ELSE visitors[i]]
           /\ limiters' = IF exists THEN limiters
                          ELSE [i \in DOMAIN limiters \cup {id} |->
                                   IF i = id THEN NewLimiter ELSE limiters[i]]
           /\ reqs' = With(Without(reqs, Locked(ip)), Allowing(ip, id))
    /\ Unlock
    /\ allowed' = NoAllow
    /\ UNCHANGED <<sweeper, window, storeVars>>

\* Limit: limiter.Allow() on the limiter getLimiter returned, then either the
\* 429 answer or next.ServeHTTP; the request is over.  allowed is the outcome
\* of this call, with what the call found: the place of the call among the
\* immediate calls on its limiter (nth, 0 once time has passed), whether a
\* second or more passed since a fourth immediate call (waited), and whether
\* the limiter is the one the table holds for the client (inTable).
AllowStep(ip, id) ==
    /\ BagIn(Allowing(ip, id), reqs)
    /\ LET res == Allow(limiters[id])
           rq == Without(reqs, Allowing(ip, id))
       IN  /\ reqs' = rq
           /\ limiters' = Collect([limiters EXCEPT ![id] = res.lim], visitors, rq)
           /\ allowed' = [op |-> "Allow", ok |-> res.ok,
                          nth |-> IF limiters[id].era = "now" /\ limiters[id].calls < 4
                                  THEN limiters[id].calls + 1 ELSE 0,
                          waited |-> limiters[id].era = "waited",
                          inTable |-> ip \in DOMAIN visitors /\ visitors[ip] = id]
           /\ window' = IF window.open /\ res.ok /\ window.admitted < MaxAdmitted
                        THEN [window EXCEPT !.admitted = @ + 1]
                        ELSE window
    /\ UNCHANGED <<visitors, mu, sweeper, storeVars>>

\* the clean-up goroutine: time.Sleep(time.Minute) is over, limiter.mu.Lock()
SweepLock ==
    /\ sweeper.pc = "sleep"
    /\ sweeper.left = 0
    /\ Lock
    /\ sweeper' = [sweeper EXCEPT !.pc = "locked"]
    /\ allowed' = NoAllow
    /\ UNCHANGED <<visitors, limiters, reqs, window, storeVars>>

\* the clean-up goroutine leaving the table as it is
SweepReset_KeepsTable ==
    /\ sweeper.pc = "locked"
    /\ Unlock
    /\ sweeper' = [pc |-> "sleep", left |-> SweepPeriod]
    /\ allowed' = NoAllow
    /\ window' = NoWindow
    /\ UNCHANGED <<visitors, limiters, reqs, storeVars>>

\* the clean-up goroutine: the table is replaced by an empty one, the lock
\* released and the next Sleep begun
SweepReset ==
    /\ sweeper.pc = "locked"
    /\ visitors' = NoVisitors
    /\ limiters' = Collect(limiters, NoVisitors, reqs)
    /\ Unlock
    /\ sweeper' = [pc |-> "sleep", left |-> SweepPeriod]
    /\ allowed' = NoAllow
    /\ window' = NoWindow
    /\ UNCHANGED <<reqs, storeVars>>

\* one second passes
Tick ==
    /\ limiters' = [i \in DOMAIN limiters |->
                       LET waited == \/ limiters[i].era = "now" /\ limiters[i].calls = 4
                                     \/ limiters[i].era = "waited"
                       IN  [limiters[i] EXCEPT
                               !.elapsed = IF @ < FullAfter THEN @ + 1 ELSE @,
                               !.era = IF waited THEN "waited" ELSE "later",
                               !.calls = IF waited THEN @ ELSE 0]]
    /\ sweeper' = [sweeper EXCEPT !.left = IF @ > 0 THEN @ - 1 ELSE 0]
    /\ allowed' = NoAllow
    /\ window' = IF window.open /\ window.t < MaxWindow
                 THEN [window EXCEPT !.t = @ + 1]
                 ELSE NoWindow
    /\ UNCHANGED <<visitors, mu, reqs, storeVars>>

(***************************************************************************)
(* The inputs the calls are tried with.                                    *)
(***************************************************************************)
\* the key of the tests, "12345678901234567890123456789012"
TestKey == [i \in 1..32 |-> 48 + (i % 10)]

ValidNames == {<<"a">>}
InvalidNames == {<<>>, <<".", ".", "/", "x">>}
Names == ValidNames \cup InvalidNames

PlainBytes == {65}
Plaintexts == SeqsUpTo(PlainBytes, MaxLen)

\* the i-th value of the random source
NonceOf(i) == [j \in 1..NonceSize |-> (83 * i + 29 * j) % 256]
Nonces == {NonceOf(i) : i \in 1..NumNonces}

\* the filenames of the calls that run concurrently
ConNames == {<<"a">>, <<"b">>}

NeverSaved == [content |-> NoData, tamper |-> "none"]

\* no value drawn from rand.Reader yet, and no call running
InitCon ==
    /\ rand = [next |-> 1, used |-> <<>>]
    /\ running = [inflight |-> EmptyBag, begun |-> [f \in ConNames |-> {}]]

\* no HTTP response
NoResp == [status |-> 0, error |-> "", data |-> NoData]

NoCall ==
    [op |-> "none", name |-> <<>>, err |-> Nil,
     data |-> NoData, read |-> 0, found |-> FALSE, fs |-> <<>>, resp |-> NoResp,
     alone |-> TRUE, handled |-> 0]

\* the state the tests start from: a service with the test key on an empty
\* directory
InitStore ==
    /\ svc = NewService(TestKey)
    /\ disk = EmptyDisk
    /\ last = NoCall
    /\ saved = [n \in Names |-> NeverSaved]
    /\ mainPc = "test"
    /\ envKey = <<>>
    /\ InitLimiter
    /\ InitCon

(***************************************************************************)
(* The calls of the storage service, each one step.                        *)
(***************************************************************************)
SaveFileCall(names, faults) ==
    \E f \in names, c \in Plaintexts, nc \in Nonces, ft \in faults :
        LET r == SaveFile(svc, disk, f, c, nc, ft)
        IN  /\ svc.ok
            /\ disk' = r.disk
            /\ last' = [NoCall EXCEPT !.op = "SaveFile", !.name = f, !.err = r.err,
                                      !.read = r.read, !.fs = r.fs]
            /\ saved' = [saved EXCEPT ![f] =
                            IF r.err = Nil THEN [content |-> c, tamper |-> "none"]
                            ELSE IF r.disk = disk THEN @ ELSE NeverSaved]
            /\ UNCHANGED <<svc, mainPc, envKey, limVars, conVars>>

LoadFileCall(names, faults) ==
    \E f \in names, ft \in faults :
        LET r == LoadFile(svc, disk, f, ft)
        IN  /\ svc.ok
            /\ last' = [NoCall EXCEPT !.op = "LoadFile", !.name = f, !.err = r.err,
                                      !.data = r.data, !.fs = r.fs]
            /\ UNCHANGED <<svc, disk, saved, mainPc, envKey, limVars, conVars>>

FileExistsCall(names, faults) ==
    \E f \in names, ft \in faults :
        LET r == FileExists(svc, disk, f, ft)
        IN  /\ svc.ok
            /\ last' = [NoCall EXCEPT !.op = "FileExists", !.name = f, !.err = r.stat,
                                      !.found = r.found, !.fs = r.fs]
            /\ UNCHANGED <<svc, disk, saved, mainPc, envKey, limVars, conVars>>

DownloadCall(names, faults) ==
    \E f \in names, ft \in faults :
        LET r == DownloadHandler(svc, disk, f, ft)
        IN  /\ svc.ok
            /\ last' = [NoCall EXCEPT !.op = "Download", !.name = f, !.err = r.err,
                                      !.data = r.resp.data, !.resp = r.resp]
            /\ UNCHANGED <<svc, disk, saved, mainPc, envKey, limVars, conVars>>

(***************************************************************************)
(* One request through the server, http.ListenAndServe(limiter.Limit(mux)): *)
(* the middleware, and behind it the handler the mux finds for the path.   *)
(* The requests are well formed (the method of the route, a file in the    *)
(* form) and run one after the other, each in one step.                    *)
(***************************************************************************)
ServeIps == {"ip1", "ip2"}
Routes == {"/upload", "/download/", "/health"}

\* http.Error(w, "Too Many Requests - Slow Down", http.StatusTooManyRequests)
TooManyRequests ==
    [status |-> 429, error |-> "Too Many Requests - Slow Down", data |-> NoData]

\* UploadHandler, from the file of the form on
UploadHandler(s, d, filename, content, nonce) ==
    LET r == SaveFile(s, d, filename, content, nonce, NoFault)
    IN  [disk |-> r.disk,
         call |-> [NoCall EXCEPT !.op = "Upload", !.name = filename, !.err = r.err,
                                 !.read = r.read, !.fs = r.fs,
                                 !.resp = [status |-> IF r.err = Nil THEN 200 ELSE 400,
                                           error |-> IF r.err = Nil THEN "" ELSE r.err,
                                           data |-> NoData]]]

\* mux.ServeHTTP: the handler of the route runs
ServeMux(s, d, route, filename, content, nonce) ==
    CASE route = "/upload" -> UploadHandler(s, d, filename, content, nonce)
      [] route = "/download/" ->
            LET r == DownloadHandler(s, d, filename, NoFault)
            IN  [disk |-> d,
                 call |-> [NoCall EXCEPT !.op = "Download", !.name = filename,
                                         !.err = r.err, !.data = r.resp.data,
                                         !.fs = IF filename = <<>> THEN <<>>
                                                ELSE LoadFile(s, d, filename, NoFault).fs,
                                         !.resp = r.resp]]
      [] route = "/health" ->
            [disk |-> d,
             call |-> [NoCall EXCEPT !.op = "Health",
                                     !.resp = [status |-> 200, error |-> "", data |-> NoData]]]

\* Limit without the return after the 429 answer
Limit_NoReturn(ok, d, next) ==
    [disk |-> next.disk,
     call |-> [next.call EXCEPT !.handled = 1,
                                !.resp = IF ok THEN @ ELSE TooManyRequests]]

\* Limit, after limiter.Allow() has answered ok: the 429 answer, or
\* next.ServeHTTP(w, r), where next is what the mux does with the request
Limit(ok, d, next) ==
    IF ~ok
    THEN [disk |-> d, call |-> [NoCall EXCEPT !.op = "Limit", !.resp = TooManyRequests]]
    ELSE [disk |-> next.disk, call |-> [next.call EXCEPT !.handled = 1]]

\* one request of client ip: getLimiter, Allow, and what Limit does then
ServeCall ==
    \E ip \in ServeIps, route \in Routes, f \in Names, c \in Plaintexts, nc \in Nonces :
        LET exists == ip \in DOMAIN visitors
            id == IF exists THEN visitors[ip]
                  ELSE CHOOSE i \in LimiterIds \ DOMAIN limiters :
                          \A j \in LimiterIds \ DOMAIN limiters : i <= j
            lim == IF exists THEN limiters[id] ELSE NewLimiter
            res == Allow(lim)
            out == Limit(res.ok, disk, ServeMux(svc, disk, route, f, c, nc))
        IN  /\ svc.ok
            /\ ~mu
            /\ route # "/upload" => nc = NonceOf(1) /\ c = <<>>
            /\ route = "/health" => f = <<>>
            /\ visitors' = [i \in DOMAIN visitors \cup {ip} |->
                               IF i = ip THEN id ELSE visitors[i]]
            /\ limiters' = [i \in DOMAIN limiters \cup {id} |->
                               IF i = id THEN res.lim ELSE limiters[i]]
            /\ allowed' = [op |-> "Allow", ok |-> res.ok,
                           nth |-> IF lim.era = "now" /\ lim.calls < 4
                                   THEN lim.calls + 1 ELSE 0,
                           waited |-> lim.era = "waited",
                           inTable |-> TRUE]
            /\ disk' = out.disk
            /\ last' = out.call
            /\ UNCHANGED <<svc, saved, mainPc, envKey, mu, reqs, sweeper, window, conVars>>

SpecServe == InitStore /\ [][ServeCall]_vars

\* C24: every request is put to the limiter of its client first.  A request
\* the limiter denies is answered 429 "Too Many Requests - Slow Down" and no
\* handler runs: no file system call is made and the disk is as it was.  A
\* request the limiter admits is handed to its handler once.
C24_LimiterFirst ==
    [][/\ allowed'.op = "Allow"
       /\ ~allowed'.ok =>
              /\ last'.op = "Limit"
              /\ last'.resp = TooManyRequests
              /\ last'.handled = 0
              /\ last'.fs = <<>>
              /\ disk' = disk
       /\ allowed'.ok =>
              /\ last'.op \in {"Upload", "Download", "Health"}
              /\ last'.handled = 1
              /\ last'.resp.status # 429]_vars

\* a request was denied and answered 429 after an upload of the same run had
\* been admitted and had written its files
C24_Witness ==
    /\ allowed.op = "Allow"
    /\ ~allowed.ok
    /\ last.op = "Limit"
    /\ last.resp.status = 429
    /\ disk # EmptyDisk

SaveStep == SaveFileCall(Names, SaveFaults)
LoadStep == LoadFileCall(Names, LoadFaults)
ExistsStep == FileExistsCall(Names, StatFaults)

Next == SaveStep \/ LoadStep \/ ExistsStep

Spec == InitStore /\ [][Next]_vars

(***************************************************************************)
(* Round trip.                                                             *)
(***************************************************************************)
\* a LoadFile whose two reads did not fail with an I/O error
ReadsWorked == last.err \notin {ErrReadEnc, ErrReadSum}

\* C1: after a successful SaveFile(F, P) and no other write to the files of
\* F, LoadFile(F) returns exactly P and no error, whatever was stored under F
\* before (an earlier content, or what a failed SaveFile left).
C1_RoundTrip ==
    (/\ last.op = "LoadFile"
     /\ saved[last.name].content # NoData
     /\ saved[last.name].tamper = "none"
     /\ ReadsWorked)
    => (last.err = Nil /\ last.data = saved[last.name].content)

\* the empty content was saved and loaded back
C1_Witness ==
    /\ last.op = "LoadFile"
    /\ last.err = Nil
    /\ last.data = <<>>
    /\ saved[last.name] = [content |-> <<>>, tamper |-> "none"]

\* C11: when SaveFile(F, P) has returned nil, F.enc and F.sha256 both exist,
\* F.enc is the nonce drawn followed by the sealing of exactly P under that
\* nonce, and F.sha256 is the 64 lowercase hex digits of the SHA-256 of P.
C11_ArtifactAndChecksum ==
    (last.op = "SaveFile" /\ last.err = Nil) =>
        LET f == last.name
            P == saved[f].content
        IN  /\ EncPath(f) \in DOMAIN disk
            /\ SumPath(f) \in DOMAIN disk
            /\ LET artifact == disk[EncPath(f)].bytes
                    nonce == Take(artifact, NonceSize)
                IN  /\ Len(artifact) = NonceSize + Len(P) + TagSize
                    /\ nonce \in Nonces
                    /\ artifact = gcmSeal(svc.key, nonce, nonce, P)
                    /\ OpenArtifact(svc, artifact) = [err |-> Nil, plaintext |-> P]
            /\ LET hexdigits == (48..57) \cup (97..102)
                    checksum == disk[SumPath(f)].bytes
                IN  /\ Len(checksum) = 2 * DigestSize
                    /\ \A i \in DOMAIN checksum : checksum[i] \in hexdigits
                    /\ checksum = HexEncode(Sha256(P))

\* a SaveFile of a content of the greatest length returned nil, with the
\* second value of the random source as its nonce
C11_Witness ==
    /\ last.op = "SaveFile"
    /\ last.err = Nil
    /\ Len(saved[last.name].content) = MaxLen
    /\ Take(disk[EncPath(last.name)].bytes, NonceSize) = NonceOf(2)

\* C12: FileExists(F) is true exactly when F passes the validator and F.enc
\* is there (os.Stat not failing otherwise), whether or not F.sha256 is
\* there; so it is false while F was never saved and true once a SaveFile
\* of F has returned nil.
C12_FileExists ==
    (last.op = "FileExists" /\ last.err # "io") =>
        /\ last.found <=> (/\ validateFilename(last.name) = Nil
                           /\ EncPath(last.name) \in DOMAIN disk)
        /\ (saved[last.name].content # NoData => last.found)
        /\ (\A q \in DOMAIN disk : Take(q, Len(last.name)) # last.name) => ~last.found

\* FileExists answered true for an artifact without its checksum file
C12_Witness ==
    /\ last.op = "FileExists"
    /\ last.found
    /\ SumPath(last.name) \notin DOMAIN disk

(***************************************************************************)
(* The permissions of the files SaveFile creates.  The disk keeps for each *)
(* file the mode it was created with (a umask of 022 or less takes nothing *)
(* from 0600 or 0644).                                                     *)
(***************************************************************************)
\* a mode with no bit for the group and none for the others
OwnerOnly(perm) == perm % 64 = 0

\* C26: after a successful SaveFile(F, .) the files it has created, F.enc
\* and F.sha256, have owner-only permissions.
C26_PrivatePermissions ==
    (last.op = "SaveFile" /\ last.err = Nil) =>
        /\ OwnerOnly(disk[EncPath(last.name)].perm)
        /\ OwnerOnly(disk[SumPath(last.name)].perm)

(***************************************************************************)
(* Several filenames in one data directory, among them names that end in   *)
(* the extensions the service appends.  Each SaveFile seals under the next *)
(* value of the random source.                                             *)
(***************************************************************************)
IsoNames == {<<"a">>, <<"a">> \o EncExt, <<"a">> \o SumExt}
IsoFaults == {NoFault, [at |-> "sum", how |-> "open"]}

IsoSave ==
    \E f \in IsoNames, c \in Plaintexts, ft \in IsoFaults :
        LET r == SaveFile(svc, disk, f, c, NonceOf(rand.next), ft)
        IN  /\ svc.ok
            /\ rand.next <= NumNonces
            /\ rand' = [rand EXCEPT !.next = @ + 1]
            /\ disk' = r.disk
            /\ last' = [NoCall EXCEPT !.op = "SaveFile", !.name = f, !.err = r.err,
                                      !.read = r.read, !.fs = r.fs]
            /\ UNCHANGED <<svc, saved, mainPc, envKey, limVars, running>>

IsoLoad == LoadFileCall(IsoNames, {NoFault})
IsoExists == FileExistsCall(IsoNames, {NoFault})

NextIsolation == IsoSave \/ IsoLoad \/ IsoExists

SpecIsolation == InitStore /\ [][NextIsolation]_vars

PathsOf(f) == {EncPath(f), SumPath(f)}

\* the file at path is after the step what it was before
SameFile(path) ==
    /\ path \in DOMAIN disk' <=> path \in DOMAIN disk
    /\ path \in DOMAIN disk => disk'[path] = disk[path]

\* C25: the paths of two different valid filenames have nothing in common,
\* also when one of the names ends in .enc or .sha256; a SaveFile of F leaves
\* the two files of every other filename G as they were, absent if they were
\* absent, and LoadFile(G) and FileExists(G) give after it what they gave
\* before.
C25_FilenameIsolation ==
    [][last'.op = "SaveFile" =>
          \A g \in IsoNames \ {last'.name} :
              /\ validateFilename(g) = Nil
              /\ PathsOf(g) \cap PathsOf(last'.name) = {}
              /\ \A path \in PathsOf(g) : SameFile(path)
              /\ LoadFile(svc, disk', g, NoFault) = LoadFile(svc, disk, g, NoFault)
              /\ FileExists(svc, disk', g, NoFault) = FileExists(svc, disk, g, NoFault)]_vars

\* "a.enc" was saved after "a", with another content, and both load
C25_Witness ==
    /\ last.op = "SaveFile"
    /\ last.name = <<"a">> \o EncExt
    /\ last.err = Nil
    /\ LoadFile(svc, disk, <<"a">>, NoFault).err = Nil
    /\ LoadFile(svc, disk, <<"a">>, NoFault).data
           # LoadFile(svc, disk, last.name, NoFault).data

(***************************************************************************)
(* A SaveFile that fails at the checksum write.                            *)
(***************************************************************************)
\* the ways the write of F.sha256 fails, after F.enc was written
SumFaults == {[at |-> "sum", how |-> h] : h \in WriteFaults \ {"ok"}}

HalfSave == SaveFileCall(ValidNames, SumFaults)
WholeSave == SaveFileCall(ValidNames, {NoFault})
LoadAfterSave == LoadFileCall(ValidNames, LoadFaults)
ExistsAfterSave == FileExistsCall(ValidNames, StatFaults)

NextHalfSave == HalfSave \/ WholeSave \/ LoadAfterSave \/ ExistsAfterSave

SpecHalfSave == InitStore /\ [][NextHalfSave]_vars

\* the step is a SaveFile that wrote F.enc and failed to write F.sha256
HalfSaved == last'.op = "SaveFile" /\ last'.err = ErrWriteSum

\* the content that F.enc holds, NoData if it does not open
Stored(d, f) ==
    IF EncPath(f) \in DOMAIN d THEN OpenArtifact(svc, d[EncPath(f)].bytes).plaintext
    ELSE NoData

\* F.sha256 is as it was before the step, absent if it was absent
ChecksumKept(f) ==
    IF SumPath(f) \in DOMAIN disk
    THEN SumPath(f) \in DOMAIN disk' /\ disk'[SumPath(f)] = disk[SumPath(f)]
    ELSE SumPath(f) \notin DOMAIN disk'

\* F.sha256 holds no more than a part of the checksum of the new content
ChecksumCut(f) ==
    /\ SumPath(f) \in DOMAIN disk'
    /\ LET new == HexEncode(Sha256(Stored(disk', f)))
           cut == disk'[SumPath(f)].bytes
       IN  Len(cut) < Len(new) /\ cut = Take(new, Len(cut))

\* F.sha256 held, before the step, the checksum of a content other than the
\* one the step has put into F.enc
OtherContentBefore(f) ==
    /\ SumPath(f) \in DOMAIN disk
    /\ \E p \in Plaintexts \ {Stored(disk', f)} :
           disk[SumPath(f)].bytes = HexEncode(Sha256(p))

\* what a LoadFile(F) right after the step returns
LoadAfter(f) == LoadFile(svc, disk', f, NoFault)

\* C21 as stated: a SaveFile(F, P2) that fails at the checksum write returns
\* an error and leaves the new artifact with the previous checksum of F, if
\* any; where that was the checksum of P1 # P2, LoadFile(F) then fails with
\* the integrity error and returns no data.
C21_PreviousChecksumStays ==
    [][HalfSaved =>
          /\ Stored(disk', last'.name) \in Plaintexts
          /\ ChecksumKept(last'.name)
          /\ OtherContentBefore(last'.name) =>
                 LoadAfter(last'.name) = LoadResult(NoData, ErrMismatch,
                                                    <<"ReadFile enc", "ReadFile sum">>)]_vars

\* C21: a SaveFile(F, P2) that fails at the checksum write returns an error
\* and leaves the new artifact on disk; F.sha256 is then as it was before
\* (absent if it was absent), or holds no more than a part of the checksum
\* of P2 when the write failed after the file was opened.  Where F.sha256
\* held the checksum of P1 # P2, LoadFile(F) then fails with the integrity
\* error and returns no data.
C21_NoCleanup ==
    [][HalfSaved =>
          /\ Stored(disk', last'.name) \in Plaintexts
          /\ ChecksumKept(last'.name) \/ ChecksumCut(last'.name)
          /\ OtherContentBefore(last'.name) =>
                 LoadAfter(last'.name) = LoadResult(NoData, ErrMismatch,
                                                    <<"ReadFile enc", "ReadFile sum">>)]_vars

\* a SaveFile has failed at the checksum write, F.enc holds its content,
\* F.sha256 the checksum of another content, and LoadFile fails with the
\* integrity error
C21_Witness ==
    /\ last.op = "SaveFile"
    /\ last.err = ErrWriteSum
    /\ Stored(disk, last.name) \in Plaintexts
    /\ SumPath(last.name) \in DOMAIN disk
    /\ \E p \in Plaintexts \ {Stored(disk, last.name)} :
           disk[SumPath(last.name)].bytes = HexEncode(Sha256(p))
    /\ LoadFile(svc, disk, last.name, NoFault).err = ErrMismatch

(***************************************************************************)
(* Validation comes first.                                                 *)
(***************************************************************************)
\* C6: a call of SaveFile, LoadFile or FileExists with a filename the
\* validator rejects returns its failure result, makes no file system call,
\* leaves the disk as it was and takes no byte from the content reader.
C6_ValidationFirst ==
    [][(/\ last'.op \in {"SaveFile", "LoadFile", "FileExists"}
        /\ validateFilename(last'.name) # Nil)
       => (/\ disk' = disk
           /\ last'.fs = <<>>
           /\ last'.read = 0
           /\ last'.data = NoData
           /\ last'.found = FALSE
           /\ last'.op # "FileExists" => last'.err = ErrInvalid)]_vars

\* SaveFile was refused for a rejected filename while the store held a file
C6_Witness ==
    /\ last.op = "SaveFile"
    /\ last.name \in InvalidNames
    /\ last.err = ErrInvalid
    /\ DOMAIN disk # {}

(***************************************************************************)
(* Tampering with the stored files.  Each of these steps acts on the files *)
(* of a name as its last successful SaveFile left them.                    *)
(***************************************************************************)
Intact(f) ==
    /\ saved[f].content # NoData
    /\ saved[f].tamper = "none"
    /\ EncPath(f) \in DOMAIN disk
    /\ SumPath(f) \in DOMAIN disk

\* bit b of byte i inverted
FlipBitAt(bytes, i, b) ==
    [bytes EXCEPT ![i] = IF (@ \div (2 ^ b)) % 2 = 1 THEN @ - 2 ^ b ELSE @ + 2 ^ b]

Tampered(f, how) ==
    /\ saved' = [saved EXCEPT ![f].tamper = how]
    /\ last' = [NoCall EXCEPT !.op = how, !.name = f]
    /\ UNCHANGED <<svc, mainPc, envKey, limVars, conVars>>

\* one bit of the artifact F.enc is inverted, in the nonce, the ciphertext or
\* the tag
FlipBit ==
    \E f \in ValidNames :
        /\ Intact(f)
        /\ \E i \in 1..Len(disk[EncPath(f)].bytes), b \in 0..7 :
              disk' = [disk EXCEPT ![EncPath(f)].bytes = FlipBitAt(@, i, b)]
        /\ Tampered(f, "flip")

\* the checksum file F.sha256 is deleted
RemoveChecksum ==
    \E f \in ValidNames :
        /\ Intact(f)
        /\ disk' = [q \in DOMAIN disk \ {SumPath(f)} |-> disk[q]]
        /\ Tampered(f, "nosum")

HexChars == (48..57) \cup (97..102)

\* the digits a replaced digit is tried with: "0", "9", "a", "f"
ProbeDigits == {48, 57, 97, 102}

WellFormedDigest(bytes) ==
    Len(bytes) = 2 * DigestSize /\ \A i \in DOMAIN bytes : bytes[i] \in HexChars

\* the checksum file F.sha256 is overwritten with another well-formed
\* digest: one hex digit replaced, or the digest of other bytes
OverwriteChecksum ==
    \E f \in ValidNames :
        /\ Intact(f)
        /\ \/ \E i \in 1..Len(disk[SumPath(f)].bytes) :
                 \E h \in ProbeDigits \ {disk[SumPath(f)].bytes[i]} :
                    disk' = [disk EXCEPT ![SumPath(f)].bytes = [@ EXCEPT ![i] = h]]
           \/ \E p \in SeqsUpTo(PlainBytes \cup {66}, MaxLen + 1) \ {saved[f].content} :
                 disk' = [disk EXCEPT ![SumPath(f)].bytes = HexEncode(Sha256(p))]
        /\ Tampered(f, "badsum")

TamperSave == SaveFileCall(ValidNames, {NoFault})
TamperLoad == LoadFileCall(ValidNames, LoadFaults)

NextTamperEnc == TamperSave \/ FlipBit \/ TamperLoad

SpecTamperEnc == InitStore /\ [][NextTamperEnc]_vars

NextTamperSum == TamperSave \/ RemoveChecksum \/ OverwriteChecksum \/ TamperLoad

SpecTamperSum == InitStore /\ [][NextTamperSum]_vars

\* C2: once one bit of the artifact written by a successful SaveFile is
\* inverted, LoadFile fails with the decryption error and returns no bytes.
C2_FlippedBitFailsDecryption ==
    (/\ last.op = "LoadFile"
     /\ saved[last.name].tamper = "flip"
     /\ last.err # ErrReadEnc)
    => (last.err = ErrDecrypt /\ last.data = NoData)

\* a LoadFile of an artifact whose nonce part had a bit inverted
C2_Witness ==
    /\ last.op = "LoadFile"
    /\ saved[last.name].tamper = "flip"
    /\ Take(disk[EncPath(last.name)].bytes, NonceSize) \notin Nonces
    /\ last.err = ErrDecrypt

\* the artifact of f is there and LoadFile can open it
Decrypts(f) ==
    /\ validateFilename(f) = Nil
    /\ EncPath(f) \in DOMAIN disk
    /\ OpenArtifact(svc, disk[EncPath(f)].bytes).err = Nil

\* C3: when F.enc is there and decrypts but F.sha256 is absent, LoadFile
\* fails with the integrity error and returns no bytes.
C3_MissingChecksumFailsClosed ==
    (/\ last.op = "LoadFile"
     /\ Decrypts(last.name)
     /\ SumPath(last.name) \notin DOMAIN disk
     /\ last.err # ErrReadEnc)
    => (last.err = ErrSumMissing /\ last.data = NoData)

\* a LoadFile after the checksum file of a saved name was deleted
C3_Witness ==
    /\ last.op = "LoadFile"
    /\ saved[last.name].tamper = "nosum"
    /\ Decrypts(last.name)
    /\ last.err = ErrSumMissing

\* C4: when F.enc decrypts and F.sha256 holds a well-formed hex digest other
\* than that of the decrypted bytes, LoadFile fails with the integrity error,
\* which is not the decryption error, and returns no bytes.
C4_WrongChecksumFailsIntegrity ==
    (/\ last.op = "LoadFile"
     /\ Decrypts(last.name)
     /\ SumPath(last.name) \in DOMAIN disk
     /\ WellFormedDigest(disk[SumPath(last.name)].bytes)
     /\ disk[SumPath(last.name)].bytes
            # HexEncode(Sha256(OpenArtifact(svc, disk[EncPath(last.name)].bytes).plaintext))
     /\ ReadsWorked)
    => (last.err = ErrMismatch /\ last.err # ErrDecrypt /\ last.data = NoData)

\* a LoadFile after the last digit of the checksum was replaced
C4_Witness ==
    /\ last.op = "LoadFile"
    /\ saved[last.name].tamper = "badsum"
    /\ WellFormedDigest(disk[SumPath(last.name)].bytes)
    /\ Take(disk[SumPath(last.name)].bytes, 2 * DigestSize - 1)
           = Take(HexEncode(Sha256(saved[last.name].content)), 2 * DigestSize - 1)
    /\ last.err = ErrMismatch

(***************************************************************************)
(* The nonces.  rand.Reader is taken as a stream of values that does not   *)
(* repeat: each SaveFile that gets as far as reading it takes the next     *)
(* value.  used lists, for every artifact that was written in full, the    *)
(* filename, the content and the first 12 bytes of the file.               *)
(***************************************************************************)
FreshSaveCall ==
    \E f \in Names, c \in Plaintexts, ft \in SaveFaults :
        LET r == SaveFile(svc, disk, f, c, NonceOf(rand.next), ft)
            drew == r.err \notin {ErrInvalid, ErrReadContent, ErrNonce}
            written == r.err \in {Nil, ErrWriteSum}
        IN  /\ svc.ok
            /\ rand.next <= NumNonces
            /\ disk' = r.disk
            /\ last' = [NoCall EXCEPT !.op = "SaveFile", !.name = f, !.err = r.err,
                                      !.read = r.read, !.fs = r.fs]
            /\ saved' = [saved EXCEPT ![f] =
                            IF r.err = Nil THEN [content |-> c, tamper |-> "none"]
                            ELSE IF r.disk = disk THEN @ ELSE NeverSaved]
            /\ rand' = [next |-> IF drew THEN rand.next + 1 ELSE rand.next,
                        used |-> IF written
                                 THEN Append(rand.used,
                                             [name |-> f, content |-> c,
                                              nonce |-> Take(r.disk[EncPath(f)].bytes,
                                                             NonceSize)])
                                 ELSE rand.used]
            /\ UNCHANGED <<svc, mainPc, envKey, limVars, running>>

SpecNonce == InitStore /\ [][FreshSaveCall]_vars

\* C17: the artifacts written by different SaveFile calls carry different
\* nonces, each the value its call drew from rand.Reader, also when the calls
\* had the same filename and the same content.
C17_NonceFreshness ==
    /\ \A i \in DOMAIN rand.used : rand.used[i].nonce \in Nonces
    /\ \A i, j \in DOMAIN rand.used : i # j => rand.used[i].nonce # rand.used[j].nonce

\* two artifacts were written for the same filename and the same content
C17_Witness ==
    \E i, j \in DOMAIN rand.used :
        /\ i < j
        /\ rand.used[i].name = rand.used[j].name
        /\ rand.used[i].content = rand.used[j].content
        /\ disk[EncPath(rand.used[j].name)].bytes
               = gcmSeal(svc.key, rand.used[j].nonce, rand.used[j].nonce, rand.used[j].content)

(***************************************************************************)
(* SaveFile and LoadFile running concurrently, as the handlers of several  *)
(* requests call them: no lock is taken, so the calls interleave at their  *)
(* file system calls.  A SaveFile is four steps (open F.enc, write it, open *)
(* F.sha256, write it and return), a LoadFile two (read F.enc and open it,  *)
(* read F.sha256 and compare).  No call fails for a reason of its own.      *)
(***************************************************************************)
Call(op, pc, name, enc, sum, data, quiet) ==
    [op |-> op, pc |-> pc, name |-> name, enc |-> enc, sum |-> sum, data |-> data,
     quiet |-> quiet]

SavesRunning == {rec \in BagToSet(running.inflight) : rec.op = "save"}

\* the calls in flight once a SaveFile has begun: none of them ran alone
Disturbed(inflight) == BagOfAll(LAMBDA rec : [rec EXCEPT !.quiet = FALSE], inflight)

Moved(rec, pc) ==
    [running EXCEPT !.inflight = With(Without(@, rec), [rec EXCEPT !.pc = pc])]

\* SaveFile, lines 82 to 113: the name is validated, the content read and
\* sealed under the next value of the random source, F.enc opened
SaveBegin ==
    \E f \in ConNames, c \in Plaintexts :
        LET p == Prepare(svc, c, NonceOf(rand.next))
        IN  /\ BagCardinality(running.inflight) < MaxCalls
            /\ rand.next <= NumNonces
            /\ rand' = [rand EXCEPT !.next = @ + 1]
            /\ validateFilename(f) = Nil
            /\ disk' = OpenTrunc(disk, EncPath(f), PermEnc)
            /\ running' = [inflight |-> With(Disturbed(running.inflight),
                                             Call("save", "enc open", f, p.enc, p.sum, c, FALSE)),
                           begun |-> [running.begun EXCEPT ![f] = @ \cup {c}]]
            /\ UNCHANGED <<svc, last, saved, mainPc, envKey, limVars>>

SaveWriteEnc ==
    \E rec \in SavesRunning :
        /\ rec.pc = "enc open"
        /\ disk' = WriteAtStart(disk, EncPath(rec.name), rec.enc)
        /\ running' = Moved(rec, "enc written")
        /\ UNCHANGED <<svc, last, saved, mainPc, envKey, limVars, rand>>

SaveOpenSum ==
    \E rec \in SavesRunning :
        /\ rec.pc = "enc written"
        /\ disk' = OpenTrunc(disk, SumPath(rec.name), PermSum)
        /\ running' = Moved(rec, "sum open")
        /\ UNCHANGED <<svc, last, saved, mainPc, envKey, limVars, rand>>

\* SaveFile, line 122 to the end: F.sha256 is written and nil returned
SaveWriteSum ==
    \E rec \in SavesRunning :
        /\ rec.pc = "sum open"
        /\ disk' = WriteAtStart(disk, SumPath(rec.name), rec.sum)
        /\ running' = [running EXCEPT !.inflight = Without(@, rec)]
        /\ last' = [NoCall EXCEPT !.op = "SaveFile", !.name = rec.name,
                                  !.read = Len(rec.data),
                                  !.fs = <<"WriteFile enc", "WriteFile sum">>,
                                  !.alone = FALSE]
        /\ UNCHANGED <<svc, saved, mainPc, envKey, limVars, rand>>

\* LoadFile, lines 132 to 162: F.enc is read and opened; the call returns
\* here when that fails
LoadBegin ==
    \E f \in ConNames :
        LET r1 == ReadFile(disk, EncPath(f), "ok")
            opened == OpenArtifact(svc, r1.bytes)
            err == IF r1.err # Nil THEN ErrNotFound ELSE opened.err
        IN  /\ BagCardinality(running.inflight) < MaxCalls
            /\ validateFilename(f) = Nil
            /\ IF err # Nil
               THEN /\ last' = [NoCall EXCEPT !.op = "LoadFile", !.name = f, !.err = err,
                                              !.fs = <<"ReadFile enc">>]
                    /\ UNCHANGED running
               ELSE /\ running' = [running EXCEPT !.inflight =
                                      With(@, Call("load", "opened", f, <<>>, <<>>,
                                                   opened.plaintext, SavesRunning = {}))]
                    /\ UNCHANGED last
            /\ UNCHANGED <<svc, disk, saved, mainPc, envKey, limVars, rand>>

\* LoadFile, lines 165 to 185: F.sha256 is read and compared
LoadEnd ==
    \E rec \in BagToSet(running.inflight) :
        LET v == VerifyChecksum(rec.data, ReadFile(disk, SumPath(rec.name), "ok"))
        IN  /\ rec.op = "load"
            /\ running' = [running EXCEPT !.inflight = Without(@, rec)]
            /\ last' = [NoCall EXCEPT !.op = "LoadFile", !.name = rec.name,
                                      !.err = v.err, !.data = v.data,
                                      !.fs = <<"ReadFile enc", "ReadFile sum">>,
                                      !.alone = rec.quiet]
            /\ UNCHANGED <<svc, disk, saved, mainPc, envKey, limVars, rand>>

NextConcurrent ==
    \/ SaveBegin
    \/ SaveWriteEnc
    \/ SaveOpenSum
    \/ SaveWriteSum
    \/ LoadBegin
    \/ LoadEnd

SpecConcurrent == InitStore /\ [][NextConcurrent]_vars

\* F.enc is the whole artifact of one SaveFile(F, P1) and F.sha256 the whole
\* checksum of another SaveFile(F, P2), P1 # P2
MismatchedPair(f) ==
    /\ EncPath(f) \in DOMAIN disk
    /\ SumPath(f) \in DOMAIN disk
    /\ LET opened == OpenArtifact(svc, disk[EncPath(f)].bytes)
       IN  /\ opened.err = Nil
           /\ opened.plaintext \in running.begun[f]
           /\ \E p \in running.begun[f] \ {opened.plaintext} :
                  disk[SumPath(f)].bytes = HexEncode(Sha256(p))

\* the last call to return was a LoadFile that ran with no SaveFile in
\* flight, and none has begun since: it read the files as they are now
LoadedAtRest == last.op = "LoadFile" /\ last.alone /\ SavesRunning = {}

\* C19: once all SaveFile calls have returned success and left F.enc of one
\* with F.sha256 of another, with different contents, every LoadFile(F)
\* fails with the integrity error (hash mismatch) and returns no data.
C19_MismatchedPairFailsLoad ==
    (LoadedAtRest /\ MismatchedPair(last.name))
        => (last.err = ErrMismatch /\ last.data = NoData)

\* two SaveFile calls of one filename with different contents have both
\* returned, the pair they left is mismatched, and a LoadFile of that name
\* has failed with the integrity error
C19_Witness ==
    /\ LoadedAtRest
    /\ MismatchedPair(last.name)
    /\ Cardinality(running.begun[last.name]) = 2
    /\ running.inflight = EmptyBag
    /\ last.err = ErrMismatch

\* C20: whatever the interleaving, a LoadFile(F) that returns success
\* returns the whole content some SaveFile(F, .) was called with, a call
\* that began before the load returned; never a part of a content, a mix of
\* two or the content of another filename.
C20_NoFabricatedPlaintext ==
    (last.op = "LoadFile" /\ last.err = Nil)
        => last.data \in running.begun[last.name]

\* a LoadFile has returned success although a SaveFile was running during
\* it, while the other filename holds other content
C20_Witness ==
    /\ last.op = "LoadFile"
    /\ last.err = Nil
    /\ ~last.alone
    /\ \E g \in ConNames \ {last.name} :
           running.begun[g] # {} /\ last.data \notin running.begun[g]

(***************************************************************************)
(* Damage of any kind to the stored files, one change after another, with  *)
(* LoadFile and the download handler called in between.                    *)
(***************************************************************************)
\* the bytes of the artifact that a bit is inverted in: the first of the
\* nonce and the last of the tag
FlipPlaces(bytes) == {1, Len(bytes)} \ {0}

\* bit 0 of a byte of F.enc is inverted
FlipAnyBit ==
    \E f \in ValidNames :
        /\ EncPath(f) \in DOMAIN disk
        /\ \E i \in FlipPlaces(disk[EncPath(f)].bytes) :
              disk' = [disk EXCEPT ![EncPath(f)].bytes = FlipBitAt(@, i, 0)]
        /\ Tampered(f, "damage")

\* F.enc is cut down to its nonce, or to one byte less
CutArtifact ==
    \E f \in ValidNames, k \in {NonceSize - 1, NonceSize} :
        /\ EncPath(f) \in DOMAIN disk
        /\ Len(disk[EncPath(f)].bytes) > k
        /\ disk' = [disk EXCEPT ![EncPath(f)].bytes = Take(@, k)]
        /\ Tampered(f, "damage")

\* F.sha256 is deleted, whatever state F.enc is in
DropChecksum ==
    \E f \in ValidNames :
        /\ SumPath(f) \in DOMAIN disk
        /\ disk' = [q \in DOMAIN disk \ {SumPath(f)} |-> disk[q]]
        /\ Tampered(f, "damage")

\* a file F.sha256 appears for a name that has no files
StrayChecksum ==
    \E f \in ValidNames, p \in Plaintexts :
        /\ EncPath(f) \notin DOMAIN disk
        /\ SumPath(f) \notin DOMAIN disk
        /\ disk' = Put(disk, SumPath(f), HexEncode(Sha256(p)), PermSum)
        /\ Tampered(f, "damage")

DamageLoad == LoadFileCall(Names, LoadFaults)
DamageDownload == DownloadCall(Names, LoadFaults)

NextDamage ==
    \/ TamperSave
    \/ FlipAnyBit
    \/ CutArtifact
    \/ DropChecksum
    \/ StrayChecksum
    \/ DamageLoad
    \/ DamageDownload

SpecDamage == InitStore /\ [][NextDamage]_vars

\* C13: LoadFile(F) for a valid F whose F.enc is not there fails with the
\* not-found error, which is neither the decryption nor an integrity error,
\* returns no bytes and leaves the disk as it was, whether or not a file
\* F.sha256 is there.
C13_NotFound ==
    [][(/\ last'.op = "LoadFile"
        /\ validateFilename(last'.name) = Nil
        /\ EncPath(last'.name) \notin DOMAIN disk)
       => (/\ last'.err = ErrNotFound
           /\ last'.err \notin {ErrDecrypt, ErrSumMissing, ErrMismatch}
           /\ last'.data = NoData
           /\ disk' = disk)]_vars

\* LoadFile answered not found for a name that has a checksum file only
C13_Witness ==
    /\ last.op = "LoadFile"
    /\ last.err = ErrNotFound
    /\ SumPath(last.name) \in DOMAIN disk
    /\ EncPath(last.name) \notin DOMAIN disk

\* the LoadFile failures that concern a check of the name or of the content
CheckFailures == {ErrInvalid, ErrDecrypt, ErrSumMissing, ErrMismatch}

\* C16: a download that fails because the file is not found is answered with
\* the not-found response, and two downloads that fail on the validation,
\* the decryption or the integrity check get one and the same response.
C16_OneGenericAnswer ==
    [][(last'.op = "Download" /\ last'.err = ErrNotFound => last'.resp.status = 404)
       /\ ((/\ last.op = "Download" /\ last.err \in CheckFailures
            /\ last'.op = "Download" /\ last'.err \in CheckFailures)
           => last'.resp = last.resp)]_vars

\* C18: LoadFile returns bytes only when F.enc is there, holds 12 bytes or
\* more, passes gcm.Open, and F.sha256 is there and equals the hex digest of
\* the decrypted bytes; otherwise it returns no bytes and the error of the
\* first of these steps that fails: not found, too small, decryption,
\* integrity.
C18_LoadCheckOrder ==
    (/\ last.op = "LoadFile"
     /\ validateFilename(last.name) = Nil
     /\ ReadsWorked)
    => LET f == last.name
           there == EncPath(f) \in DOMAIN disk
           artifact == disk[EncPath(f)].bytes
           opened == gcmOpen(svc.key, Take(artifact, NonceSize),
                             SubSeq(artifact, NonceSize + 1, Len(artifact)))
           expected ==
               IF ~there THEN ErrNotFound
               ELSE IF Len(artifact) < NonceSize THEN ErrTooSmall
               ELSE IF ~opened.ok THEN ErrDecrypt
               ELSE IF SumPath(f) \notin DOMAIN disk THEN ErrSumMissing
               ELSE IF disk[SumPath(f)].bytes # HexEncode(Sha256(opened.plaintext))
                    THEN ErrMismatch
               ELSE Nil
       IN  /\ last.err = expected
           /\ last.data = IF expected = Nil THEN opened.plaintext ELSE NoData

\* the decryption error for a damaged artifact whose checksum file is gone
C18_Witness ==
    /\ last.op = "LoadFile"
    /\ EncPath(last.name) \in DOMAIN disk
    /\ SumPath(last.name) \notin DOMAIN disk
    /\ Len(disk[EncPath(last.name)].bytes) > NonceSize + TagSize
    /\ last.err = ErrDecrypt

(***************************************************************************)
(* validateFilename on its own: the initial state holds the filename, the  *)
(* one step validates it.                                                  *)
(***************************************************************************)
\* letters, a digit, the three punctuation marks of the pattern, both
\* separators, and three characters outside the pattern
NameChars == {"a", "Z", "7", "_", "-", ".", "/", "\\", "<", " ", "\n"}

NameInputs == SeqsUpTo(NameChars, MaxNameLen)

InitValidate ==
    /\ svc = NewService(TestKey)
    /\ disk = EmptyDisk
    /\ last \in {[NoCall EXCEPT !.op = "pending", !.name = n] : n \in NameInputs}
    /\ saved = [n \in Names |-> NeverSaved]
    /\ mainPc = "test"
    /\ envKey = <<>>
    /\ InitLimiter
    /\ InitCon

ValidateCall ==
    /\ last.op = "pending"
    /\ last' = [last EXCEPT !.op = "validateFilename", !.err = validateFilename(last.name)]
    /\ UNCHANGED <<svc, disk, saved, mainPc, envKey, limVars, conVars>>

SpecValidate == InitValidate /\ [][ValidateCall]_vars

\* the characters the filename gate lets through: A-Z, a-z, 0-9, _ . -
GateChars ==
    {"a","b","c","d","e","f","g","h","i","j","k","l","m","n","o","p","q","r","s","t",
     "u","v","w","x","y","z","A","B","C","D","E","F","G","H","I","J","K","L","M","N",
     "O","P","Q","R","S","T","U","V","W","X","Y","Z","0","1","2","3","4","5","6","7",
     "8","9","_",".","-"}

\* what the filename gate is said to reject
GateRejects(name) ==
    \/ name = <<>>
    \/ \E i \in 1..(Len(name) - 1) : name[i] = "." /\ name[i + 1] = "."
    \/ \E i \in DOMAIN name : name[i] = "/" \/ name[i] = "\\"
    \/ \E i \in DOMAIN name : name[i] \notin GateChars
    \/ name = <<".">>
    \/ name = <<".", ".">>

\* C5: validateFilename returns an error exactly for the empty name, a name
\* holding "..", "/" or "\", a name with a character outside [A-Za-z0-9_.-],
\* and the names "." and ".."; every other name is accepted as it is.
C5_FilenameGate ==
    last.op = "validateFilename" => ((last.err # Nil) <=> GateRejects(last.name))

\* a name of allowed characters only was rejected for its ".."
C5_Witness ==
    /\ last.op = "validateFilename"
    /\ last.name = <<"a", ".", ".">>
    /\ last.err = "filename contains path traversal attempt"

(***************************************************************************)
(* Start-up: main() reads STORAGE_KEY, checks it and builds the service;   *)
(* the tests of the storage package call NewService themselves.            *)
(***************************************************************************)
KeyOfLen(n) == [i \in 1..n |-> 48 + (i % 10)]

NoService == [ok |-> FALSE, err |-> Nil, key |-> <<>>]

InitStartup ==
    /\ svc = NoService
    /\ disk = EmptyDisk
    /\ last = NoCall
    /\ saved = [n \in Names |-> NeverSaved]
    /\ mainPc = "start"
    /\ envKey \in {KeyOfLen(n) : n \in 0..MaxKeyLen}
    /\ InitLimiter
    /\ InitCon

\* main: the two checks of STORAGE_KEY
MainCheckKey ==
    /\ mainPc = "start"
    /\ mainPc' = IF envKey = <<>> THEN "fatal: STORAGE_KEY is required"
                 ELSE IF Len(envKey) # MainKeyLen
                      THEN "fatal: STORAGE_KEY must be exactly 32 characters"
                 ELSE "mkdir"
    /\ UNCHANGED <<svc, disk, last, saved, envKey, limVars, conVars>>

\* main: os.MkdirAll(dataDir, 0755)
MainMkdirAll ==
    /\ mainPc = "mkdir"
    /\ \E ok \in BOOLEAN :
          mainPc' = IF ok THEN "newservice" ELSE "fatal: failed to create data directory"
    /\ UNCHANGED <<svc, disk, last, saved, envKey, limVars, conVars>>

\* main: storage.NewService(encryptionKey, dataDir)
MainNewService ==
    /\ mainPc = "newservice"
    /\ svc' = NewService(envKey)
    /\ last' = [NoCall EXCEPT !.op = "NewService", !.err = NewService(envKey).err]
    /\ mainPc' = IF NewService(envKey).ok THEN "serving"
                 ELSE "fatal: failed to initialize storage service"
    /\ UNCHANGED <<disk, saved, envKey, limVars, conVars>>

\* NewService called with the key directly, as the tests of the package do
NewServiceCall ==
    /\ mainPc = "start"
    /\ svc' = NewService(envKey)
    /\ last' = [NoCall EXCEPT !.op = "NewService", !.err = NewService(envKey).err]
    /\ mainPc' = "test"
    /\ UNCHANGED <<disk, saved, envKey, limVars, conVars>>

NextStartup == MainCheckKey \/ MainMkdirAll \/ MainNewService \/ NewServiceCall

SpecStartup == InitStartup /\ [][NextStartup]_vars

\* C10: NewService returns a service only for a key of exactly 32 bytes and
\* an error, and no service, for a key of any other length.
C10_OnlyKeysOf32Bytes ==
    last.op = "NewService" => ((last.err = Nil /\ svc.ok) <=> Len(envKey) = 32)

(***************************************************************************)
(* The rate limiter with its requests, the clean-up goroutine and time.    *)
(***************************************************************************)
InitRate == InitStore

NextRate ==
    \/ \E ip \in Ips : GetLimiterLock(ip)
    \/ \E ip \in Ips : GetLimiterBody(ip)
    \/ \E ip \in Ips, id \in LimiterIds : AllowStep(ip, id)
    \/ SweepLock
    \/ SweepReset
    \/ Tick

SpecRate == InitRate /\ [][NextRate]_vars

\* C7: of the Allow calls made on one limiter before any time has passed,
\* the first three are admitted and the fourth is denied; the call made
\* once a second or more has passed since the denial is admitted again.
C7_TokenBucket ==
    allowed.op = "Allow" =>
        /\ (allowed.nth \in 1..Burst => allowed.ok)
        /\ (allowed.nth = Burst + 1 => ~allowed.ok)
        /\ (allowed.waited => allowed.ok)

\* a call was admitted after the wait that followed a denied fourth call
C7_Witness == allowed.op = "Allow" /\ allowed.waited /\ allowed.ok

\* C8: every bucket of the table holds between 0 and 3 tokens, as stored
\* and as refilled for the time that has passed since.
C8_BucketInvariant ==
    \A ip \in DOMAIN visitors :
        /\ limiters[visitors[ip]].tokens \in 0..Burst
        /\ advance(limiters[visitors[ip]]) \in 0..Burst

\* a bucket of the table that is not full and that the time passed since
\* its last admitted call would fill beyond the capacity
C8_Witness ==
    \E ip \in DOMAIN visitors :
        /\ limiters[visitors[ip]].tokens < Burst
        /\ limiters[visitors[ip]].tokens + limiters[visitors[ip]].elapsed * Rate > Burst

C14_AllowFrame ==
    [][\A ip \in Ips, id \in DOMAIN limiters :
          CopiesIn(Allowing(ip, id), reqs') < CopiesIn(Allowing(ip, id), reqs)
          => /\ allowed'.op = "Allow"
             /\ allowed'.ok \in BOOLEAN
             /\ allowed'.ok <=> advance(limiters[id]) >= 1
             /\ id \in DOMAIN limiters'
                   => advance(limiters'[id])
                         = advance(limiters[id]) - (IF allowed'.ok THEN 1 ELSE 0)
             /\ \A j \in DOMAIN limiters' \ {id} : limiters'[j] = limiters[j]]_vars

\* a call was denied on the bucket of the table, which holds no token
C14_Witness ==
    /\ allowed.op = "Allow"
    /\ ~allowed.ok
    /\ allowed.inTable
    /\ \E ip \in DOMAIN visitors : advance(limiters[visitors[ip]]) = 0

\* C15: a sweep leaves an empty table; a client that has no bucket in the
\* table gets a new bucket holding 3 tokens; and the first Allow on such a
\* bucket is admitted.
C15_SweepReset ==
    [][/\ (sweeper.pc = "locked" /\ sweeper'.pc = "sleep") => visitors' = NoVisitors
       /\ \A ip \in DOMAIN visitors' \ DOMAIN visitors :
             /\ visitors'[ip] \notin DOMAIN limiters
             /\ limiters'[visitors'[ip]].tokens = Burst
       /\ \A ip \in Ips, id \in DOMAIN limiters :
             (/\ CopiesIn(Allowing(ip, id), reqs') < CopiesIn(Allowing(ip, id), reqs)
              /\ limiters[id].tokens = Burst)
             => allowed'.ok]_vars

\* a client was denied on its fourth call, the sweep ran, and its next call
\* was admitted as the first on a new bucket, all within one second: a
\* request still holds the bucket of before the sweep
C15_Witness ==
    /\ allowed.op = "Allow" /\ allowed.ok /\ allowed.nth = 1 /\ allowed.inTable
    /\ \E rec \in BagToSet(reqs) :
          /\ rec.pc = "allow"
          /\ rec.ip \in DOMAIN visitors
          /\ visitors[rec.ip] # rec.lim
          /\ limiters[rec.lim].calls = Burst + 1
          /\ limiters[rec.lim].era = "now"
          /\ limiters[visitors[rec.ip]].era = "now"

\* C22: a request leaves getLimiter with the bucket the table holds for its
\* key; when the table already held one (made by an earlier first request,
\* no sweep since), it is that one and no bucket is made.  The requests that
\* share a bucket are admitted, before any time passes, three times in all.
C22_OneBucketPerKey ==
    [][/\ \A ip \in Ips, id \in LimiterIds :
             CopiesIn(Allowing(ip, id), reqs') > CopiesIn(Allowing(ip, id), reqs) =>
                /\ ip \in DOMAIN visitors' /\ visitors'[ip] = id
                /\ ip \in DOMAIN visitors =>
                       (visitors[ip] = id /\ limiters' = limiters)
       /\ (allowed'.op = "Allow" /\ allowed'.ok /\ allowed'.nth # 0) =>
              allowed'.nth <= Burst]_vars

\* two requests of one client are past getLimiter, both with the new bucket
\* of the table, before either has called Allow
C22_Witness ==
    \E ip \in DOMAIN visitors :
        /\ CopiesIn(Allowing(ip, visitors[ip]), reqs) = 2
        /\ limiters[visitors[ip]] = NewLimiter

(***************************************************************************)
(* The admissions of one client within a stretch of time that holds no     *)
(* sweep.  The stretch begins at any moment, ends with the next sweep or   *)
(* after MaxWindow seconds, and another can begin then.                    *)
(***************************************************************************)
OpenWindow ==
    /\ ~window.open
    /\ window' = [open |-> TRUE, t |-> 0, admitted |-> 0]
    /\ allowed' = NoAllow
    /\ UNCHANGED <<visitors, limiters, mu, reqs, sweeper, storeVars>>

NextWindow == NextRate \/ OpenWindow

SpecWindow == InitRate /\ [][NextWindow]_vars

\* C23: within t seconds that hold no sweep, at most 3 + t Allow calls of
\* one client are admitted.
C23_AdmissionBound ==
    window.open => window.admitted <= Burst + Rate * window.t

=============================================================================
